---- MODULE Spec2Model ----
(***************************************************************************)
(* Model of package context (brunoga/context): a wrapper around the        *)
(* standard library context that adds waiting on derived contexts.         *)
(*                                                                         *)
(* The repository carries several revisions of context.go.  A behaviour of *)
(* the model runs ONE of them, recorded in rev, and each revision has its  *)
(* own specification (Spec is context.go's, the latest):                   *)
(*   "part_002"   earliest: With* call parent.parentWg().Add(1),           *)
(*                WithContext wraps a standard context                     *)
(*   "part_001"   With* call parent.wg().Add(1), WithStandardContext,      *)
(*                WithContext returns its argument.  part_000 is the same  *)
(*                file before WithContext got that name (CreateChild) and  *)
(*                before Err was added; it runs as this revision too.      *)
(*   "context.go" With* register nothing, Child registers                  *)
(*                                                                         *)
(* sync.WaitGroup is the standard library's: a counter and a list of       *)
(* blocked waiters.  Add and Done are atomic steps.  Wait is modelled in   *)
(* the steps of its code: it loads the counter, returns when it saw zero,  *)
(* otherwise blocks; the Done that brings the counter to zero releases     *)
(* every blocked waiter; a released waiter that wakes up and finds the     *)
(* counter non-zero panics ("WaitGroup is reused before previous Wait has  *)
(* returned").  A panic ends the program: no action is enabled afterwards. *)
(***************************************************************************)
EXTENDS Integers, FiniteSets

\* ------------------------------------------------------------------ bounds
MaxNodes == 3
MaxWaiters == 1
MaxFinished == 2
MaxOptIns == 1

Ids == 1..MaxNodes
Waiters == 1..MaxWaiters
Nil == 0

Revisions == {"part_002", "part_001", "context.go"}
\* The standard contexts a node wraps: context.Background()/TODO(), the
\* cancelCtx of context.WithCancel, the timerCtx of context.WithDeadline and
\* context.WithTimeout, and a context handed in from outside.
DerivedStd == {"cancelCtx", "timerCtx"}
StdErrs == {"nil", "Canceled", "DeadlineExceeded", "Other"}
\* Err() of a standard context handed in from outside: active, or an error of
\* its own that is neither Canceled nor DeadlineExceeded.
ExternalErrs == {"nil", "Other"}

VARIABLES
    rev,        \* the revision of context.go this behaviour runs
    typ,        \* typ[n]: "none" (not created), "emptyCtx" or "ctxImpl"
    std,        \* std[k]: the kind of standard context made for node k, "none" if none
    parentWg,   \* parentWg[n]: the node whose childrenWg n.parentWg points to, or Nil
    childrenWg, \* childrenWg[n]: the counter of n.childrenWg
    ctx,        \* ctx[n]: the wrapped standard context, named by the node that made it
    cerr,       \* cerr[k]: Err() of the standard context made for node k
    finished,   \* finished[n]: number of calls of n.Finished() that returned
    optins,     \* number of calls of WithContext/CreateChild (part_001) so far
    wpc,        \* wpc[w]: where goroutine w is in Wait()
    wnode,      \* wnode[w]: the node goroutine w called Wait() on
    fault       \* "none", or the panic that ended the program

vars == <<rev, typ, std, parentWg, childrenWg, ctx, cerr, finished, optins, wpc, wnode, fault>>
nodeVars == <<typ, std, parentWg, ctx>>
waitVars == <<wpc, wnode>>

\* The program before its first call, running revision r.
InitRev(r) ==
    /\ rev = r
    /\ typ = [n \in Ids |-> "none"]
    /\ std = [n \in Ids |-> "none"]
    /\ parentWg = [n \in Ids |-> Nil]
    /\ childrenWg = [n \in Ids |-> 0]
    /\ ctx = [n \in Ids |-> Nil]
    /\ cerr = [n \in Ids |-> "none"]
    /\ finished = [n \in Ids |-> 0]
    /\ optins = 0
    /\ wpc = [w \in Waiters |-> "idle"]
    /\ wnode = [w \in Waiters |-> Nil]
    /\ fault = "none"

Init == InitRev("context.go")
InitPart001 == InitRev("part_001")
InitPart002 == InitRev("part_002")

\* ------------------------------------------------------------- helpers
Exists(n) == typ[n] # "none"
Nodes == {n \in Ids : Exists(n)}
Running == fault = "none"

\* The next unused node: the value a constructor returns.
Fresh == IF Nodes = Ids THEN Nil ELSE CHOOSE n \in Ids : ~Exists(n) /\ \A m \in Ids : m < n => Exists(m)

\* The nodes whose parentWg points to p's childrenWg.
Kids(p) == {c \in Nodes : parentWg[c] = p}

\* &ctxImpl{c, wg, sync.WaitGroup{}} / &emptyCtx{...}: the composite literal.
NewNode(n, t, k, pwg, c) ==
    /\ typ' = [typ EXCEPT ![n] = t]
    /\ std' = [std EXCEPT ![n] = k]
    /\ parentWg' = [parentWg EXCEPT ![n] = pwg]
    /\ ctx' = [ctx EXCEPT ![n] = c]

\* context.WithCancel/WithDeadline/WithTimeout(parent.context()): a new
\* standard context for node n, already done when the parent's is.
DeriveStd(n, p) == cerr' = [cerr EXCEPT ![n] = cerr[ctx[p]]]

\* An Add that counts a registration twice (mutant of WgAdd).
WgAdd_Twice(n) == childrenWg' = [childrenWg EXCEPT ![n] = @ + 2]

\* sync.WaitGroup.Add(1) on n's childrenWg.
WgAdd(n) == childrenWg' = [childrenWg EXCEPT ![n] = @ + 1]

\* Done without the check of the sign (mutant of WgDone).
WgDone_NoPanic(n) ==
    LET v == childrenWg[n] - 1 IN
    /\ childrenWg' = [childrenWg EXCEPT ![n] = v]
    /\ fault' = fault
    /\ wpc' = [w \in Waiters |->
                 IF v = 0 /\ wpc[w] = "blocked" /\ wnode[w] = n THEN "released" ELSE wpc[w]]
    /\ UNCHANGED wnode

\* A Done() that reaches zero and wakes nobody up (mutant of WgDone).
WgDone_NoRelease(n) ==
    LET v == childrenWg[n] - 1 IN
    /\ childrenWg' = [childrenWg EXCEPT ![n] = v]
    /\ fault' = IF v < 0 THEN "negative WaitGroup counter" ELSE fault
    /\ UNCHANGED <<wpc, wnode>>

\* sync.WaitGroup.Done() on n's childrenWg: the counter is decremented, a
\* negative counter panics, a counter of zero releases the blocked waiters.
WgDone(n) ==
    LET v == childrenWg[n] - 1 IN
    /\ childrenWg' = [childrenWg EXCEPT ![n] = v]
    /\ fault' = IF v < 0 THEN "negative WaitGroup counter" ELSE fault
    /\ wpc' = [w \in Waiters |->
                 IF v = 0 /\ wpc[w] = "blocked" /\ wnode[w] = n THEN "released" ELSE wpc[w]]
    /\ UNCHANGED wnode

\* ------------------------------------------------------------- roots
Background ==
    /\ Running /\ Fresh # Nil
    /\ NewNode(Fresh, "emptyCtx", "background", Nil, Fresh)
    /\ cerr' = [cerr EXCEPT ![Fresh] = "nil"]
    /\ UNCHANGED <<rev, childrenWg, finished, optins, waitVars, fault>>

TODO ==
    /\ Running /\ Fresh # Nil
    /\ NewNode(Fresh, "emptyCtx", "background", Nil, Fresh)
    /\ cerr' = [cerr EXCEPT ![Fresh] = "nil"]
    /\ UNCHANGED <<rev, childrenWg, finished, optins, waitVars, fault>>

\* ------------------------------------------------ context.go (latest)
\* With*: parentWg is parent.wg(), nothing is added to it.
WithHead(p, k) ==
    /\ Running /\ rev = "context.go" /\ Fresh # Nil /\ Exists(p)
    /\ NewNode(Fresh, "ctxImpl", k, p, Fresh)
    /\ DeriveStd(Fresh, p)
    /\ UNCHANGED <<rev, childrenWg, finished, optins, waitVars, fault>>

WithCancel(p) == WithHead(p, "cancelCtx")
WithDeadline(p) == WithHead(p, "timerCtx")
WithTimeout(p) == WithHead(p, "timerCtx")

\* Child that forgets parent.wg().Add(1) (mutant of Child).
Child_NoAdd(p) ==
    /\ Running /\ rev = "context.go" /\ Fresh # Nil /\ Exists(p)
    /\ NewNode(Fresh, "ctxImpl", "none", p, ctx[p])
    /\ UNCHANGED <<rev, childrenWg, cerr, finished, optins, waitVars, fault>>

\* Child that adds to the counter the parent itself reports to, as part_002's
\* With* do (mutant of Child).
Child_ParentWg(p) ==
    /\ Running /\ rev = "context.go" /\ Fresh # Nil /\ Exists(p)
    /\ NewNode(Fresh, "ctxImpl", "none", p, ctx[p])
    /\ WgAdd(IF parentWg[p] = Nil THEN p ELSE parentWg[p])
    /\ UNCHANGED <<rev, cerr, finished, optins, waitVars, fault>>

\* Child that registers with the parent and with the node the parent reports
\* to, so that a Wait() would wait for grandchildren too (mutant of Child).
Child_AddsUpTheTree(p) ==
    /\ Running /\ rev = "context.go" /\ Fresh # Nil /\ Exists(p)
    /\ NewNode(Fresh, "ctxImpl", "none", p, ctx[p])
    /\ childrenWg' = [n \in Ids |->
                        IF n = p \/ n = parentWg[p] THEN childrenWg[n] + 1 ELSE childrenWg[n]]
    /\ UNCHANGED <<rev, cerr, finished, optins, waitVars, fault>>

\* Child: shares the parent's wrapped context and adds one to parent.wg().
Child(p) ==
    /\ Running /\ rev = "context.go" /\ Fresh # Nil /\ Exists(p)
    /\ NewNode(Fresh, "ctxImpl", "none", p, ctx[p])
    /\ WgAdd(p)
    /\ UNCHANGED <<rev, cerr, finished, optins, waitVars, fault>>

\* ------------------------------------------------ part_001 (and part_000)
\* With*: parent.wg().Add(1), then the node with parentWg = parent.wg().
WithAddOwn(p, k) ==
    /\ Running /\ rev = "part_001" /\ Fresh # Nil /\ Exists(p)
    /\ WgAdd(p)
    /\ NewNode(Fresh, "ctxImpl", k, p, Fresh)
    /\ DeriveStd(Fresh, p)
    /\ UNCHANGED <<rev, finished, optins, waitVars, fault>>

WithCancel_part_001(p) == WithAddOwn(p, "cancelCtx")
WithDeadline_part_001(p) == WithAddOwn(p, "timerCtx")
WithTimeout_part_001(p) == WithAddOwn(p, "timerCtx")

\* WithStandardContext: wraps any standard context; parentWg is nil.
WithStandardContext(e) ==
    /\ Running /\ rev = "part_001" /\ Fresh # Nil
    /\ NewNode(Fresh, "ctxImpl", "external", Nil, Fresh)
    /\ cerr' = [cerr EXCEPT ![Fresh] = e]
    /\ UNCHANGED <<rev, childrenWg, finished, optins, waitVars, fault>>

\* WithContext (part_001): parent.wg().Add(1); return parent.
WithContext(p) ==
    /\ Running /\ rev = "part_001" /\ Exists(p)
    /\ optins < MaxOptIns
    /\ optins' = optins + 1
    /\ WgAdd(p)
    /\ UNCHANGED <<rev, nodeVars, cerr, finished, waitVars, fault>>

\* CreateChild (part_000): parent.wg().Add(1); return parent.
CreateChild(p) ==
    /\ Running /\ rev = "part_001" /\ Exists(p)
    /\ optins < MaxOptIns
    /\ optins' = optins + 1
    /\ WgAdd(p)
    /\ UNCHANGED <<rev, nodeVars, cerr, finished, waitVars, fault>>

\* ------------------------------------------------ part_002 (earliest)
\* With*: parent.parentWg().Add(1) comes first: a nil *sync.WaitGroup when the
\* parent is an emptyCtx or has a nil pWg, and Add on it dereferences nil.
WithEarly(p, k) ==
    /\ Running /\ rev = "part_002" /\ Fresh # Nil /\ Exists(p)
    /\ IF typ[p] = "emptyCtx" \/ parentWg[p] = Nil
         THEN /\ fault' = "nil pointer dereference"
              /\ UNCHANGED <<nodeVars, childrenWg, cerr>>
         ELSE /\ WgAdd(parentWg[p])
              /\ NewNode(Fresh, "ctxImpl", k, p, Fresh)
              /\ DeriveStd(Fresh, p)
              /\ UNCHANGED fault
    /\ UNCHANGED <<rev, finished, optins, waitVars>>

WithCancel_part_002(p) == WithEarly(p, "cancelCtx")
WithDeadline_part_002(p) == WithEarly(p, "timerCtx")
WithTimeout_part_002(p) == WithEarly(p, "timerCtx")

\* WithContext (part_002): wraps any standard context; pWg is nil.
WithContext_part_002(e) ==
    /\ Running /\ rev = "part_002" /\ Fresh # Nil
    /\ NewNode(Fresh, "ctxImpl", "external", Nil, Fresh)
    /\ cerr' = [cerr EXCEPT ![Fresh] = e]
    /\ UNCHANGED <<rev, childrenWg, finished, optins, waitVars, fault>>

\* ------------------------------------------------ Finished
\* emptyCtx.Finished that signals its own counter (mutant of FinishedEmpty).
FinishedEmpty_Done(n) ==
    /\ Running /\ typ[n] = "emptyCtx" /\ finished[n] < MaxFinished
    /\ WgDone(n)
    /\ finished' = [finished EXCEPT ![n] = @ + 1]
    /\ UNCHANGED <<rev, nodeVars, cerr, optins>>

\* emptyCtx.Finished: return.
FinishedEmpty(n) ==
    /\ Running /\ typ[n] = "emptyCtx" /\ finished[n] < MaxFinished
    /\ finished' = [finished EXCEPT ![n] = @ + 1]
    /\ UNCHANGED <<rev, nodeVars, childrenWg, cerr, optins, waitVars, fault>>

\* ctxImpl.Finished: c.parentWg.Done(); Done on a nil *sync.WaitGroup
\* dereferences nil.
FinishedImpl(n) ==
    /\ Running /\ typ[n] = "ctxImpl" /\ finished[n] < MaxFinished
    /\ IF parentWg[n] = Nil
         THEN /\ fault' = "nil pointer dereference"
              /\ UNCHANGED <<childrenWg, waitVars, finished>>
         ELSE /\ WgDone(parentWg[n])
              /\ finished' = [finished EXCEPT ![n] = IF childrenWg[parentWg[n]] > 0 THEN @ + 1 ELSE @]
    /\ UNCHANGED <<rev, nodeVars, cerr, optins>>

\* ------------------------------------------------ Wait
\* Wait that queues the caller whatever the counter (mutant of WaitCall).
WaitCall_AlwaysBlocks(w, n) ==
    /\ Running /\ Exists(n) /\ wpc[w] \in {"idle", "returned"}
    /\ wpc' = [wpc EXCEPT ![w] = "blocked"]
    /\ wnode' = [wnode EXCEPT ![w] = n]
    /\ UNCHANGED <<rev, nodeVars, childrenWg, cerr, finished, optins, fault>>

\* Wait: childrenWg.Wait() loads the counter; zero returns, otherwise the
\* caller is queued and blocks.
WaitCall(w, n) ==
    /\ Running /\ Exists(n) /\ wpc[w] \in {"idle", "returned"}
    /\ wpc' = [wpc EXCEPT ![w] = IF childrenWg[n] = 0 THEN "sawzero" ELSE "blocked"]
    /\ wnode' = [wnode EXCEPT ![w] = n]
    /\ UNCHANGED <<rev, nodeVars, childrenWg, cerr, finished, optins, fault>>

\* A Wait() that looks at the counter again before it returns and blocks when
\* it is no longer zero (mutant of WaitReturn).
WaitReturn_Rechecks(w) ==
    /\ Running /\ wpc[w] = "sawzero"
    /\ wpc' = [wpc EXCEPT ![w] = IF childrenWg[wnode[w]] = 0 THEN "returned" ELSE "blocked"]
    /\ UNCHANGED <<rev, nodeVars, childrenWg, cerr, finished, optins, wnode, fault>>

\* Wait returns to its caller after it saw a counter of zero.
WaitReturn(w) ==
    /\ Running /\ wpc[w] = "sawzero"
    /\ wpc' = [wpc EXCEPT ![w] = "returned"]
    /\ UNCHANGED <<rev, nodeVars, childrenWg, cerr, finished, optins, wnode, fault>>

\* A released waiter wakes up: it returns, or panics when the counter is
\* no longer zero.
WaitWake(w) ==
    /\ Running /\ wpc[w] = "released"
    /\ IF childrenWg[wnode[w]] # 0
         THEN fault' = "WaitGroup is reused before previous Wait has returned" /\ UNCHANGED wpc
         ELSE wpc' = [wpc EXCEPT ![w] = "returned"] /\ UNCHANGED fault
    /\ UNCHANGED <<rev, nodeVars, childrenWg, cerr, finished, optins, wnode>>

\* ------------------------------------------------ cancellation
\* The standard contexts below k: made by a node derived, at any depth, from
\* a node that wraps k.
RECURSIVE Under(_, _, _)
Under(j, k, d) ==
    /\ d > 0 /\ Exists(j) /\ std[j] \in DerivedStd
    /\ \/ ctx[parentWg[j]] = k
       \/ Under(ctx[parentWg[j]], k, d - 1)

\* A cancellation that stops at the context it was called on (mutant of
\* CancelStd).
CancelStd_Self(k, e) ==
    cerr' = [cerr EXCEPT ![k] = e]

CancelStd(k, e) ==
    cerr' = [j \in Ids |-> IF cerr[j] = "nil" /\ (j = k \/ Under(j, k, MaxNodes)) THEN e ELSE cerr[j]]

\* A CancelFunc that also signals the parent's counter (mutant of Cancel).
Cancel_Finishes(n) ==
    /\ Running /\ Exists(n) /\ std[n] \in DerivedStd /\ cerr[n] = "nil"
    /\ CancelStd(n, "Canceled")
    /\ childrenWg[parentWg[n]] > 0
    /\ WgDone(parentWg[n])
    /\ UNCHANGED <<rev, nodeVars, finished, optins>>

\* The CancelFunc a With* constructor returned.
Cancel(n) ==
    /\ Running /\ Exists(n) /\ std[n] \in DerivedStd /\ cerr[n] = "nil"
    /\ CancelStd(n, "Canceled")
    /\ UNCHANGED <<rev, nodeVars, childrenWg, finished, optins, waitVars, fault>>

\* The deadline of a WithDeadline/WithTimeout context passes.
DeadlinePasses(n) ==
    /\ Running /\ Exists(n) /\ std[n] = "timerCtx" /\ cerr[n] = "nil"
    /\ CancelStd(n, "DeadlineExceeded")
    /\ UNCHANGED <<rev, nodeVars, childrenWg, finished, optins, waitVars, fault>>

\* ------------------------------------------------ Err
\* The package's sentinels: var Canceled = context.Canceled and
\* var DeadlineExceeded = context.DeadlineExceeded.
Canceled == "Canceled"
DeadlineExceeded == "DeadlineExceeded"

\* An Err that returns nil for an error it does not know (mutant of ErrOf).
ErrOf_DropsOther(e) ==
    CASE e = "Canceled" -> Canceled
      [] e = "DeadlineExceeded" -> DeadlineExceeded
      [] OTHER -> "nil"

\* The switch of ctxImpl.Err on the wrapped context's Err() e.
ErrOf(e) ==
    CASE e = "Canceled" -> Canceled
      [] e = "DeadlineExceeded" -> DeadlineExceeded
      [] OTHER -> e

\* n.Err(): ctxImpl.Err for a ctxImpl; an emptyCtx has no Err of its own and
\* answers with the embedded context.Context's.
Err(n) == IF typ[n] = "ctxImpl" THEN ErrOf(cerr[ctx[n]]) ELSE cerr[ctx[n]]

\* ------------------------------------------------ specifications
\* What every revision has: the roots, Finished, Wait, and the standard
\* library's cancellation.
Common ==
    \/ Background
    \/ TODO
    \/ \E n \in Ids : FinishedEmpty(n)
    \/ \E n \in Ids : FinishedImpl(n)
    \/ \E w \in Waiters, n \in Ids : WaitCall(w, n)
    \/ \E w \in Waiters : WaitReturn(w)
    \/ \E w \in Waiters : WaitWake(w)
    \/ \E n \in Ids : Cancel(n)
    \/ \E n \in Ids : DeadlinePasses(n)

\* context.go, the latest revision.
Next ==
    \/ Common
    \/ \E p \in Ids : WithCancel(p)
    \/ \E p \in Ids : WithDeadline(p)
    \/ \E p \in Ids : WithTimeout(p)
    \/ \E p \in Ids : Child(p)

Spec == Init /\ [][Next]_vars

\* context.go driven by a caller that keeps the order the package asks for:
\* Child(p) is not called while a Wait() on p is in progress, and every node
\* made by Child calls Finished() once, and no other node does.
ChildBeforeWait(p) ==
    /\ \A w \in Waiters : wnode[w] = p => wpc[w] \in {"idle", "returned"}
    /\ Child(p)

FinishedOnce(c) ==
    /\ typ[c] = "ctxImpl" /\ std[c] = "none" /\ finished[c] = 0
    /\ FinishedImpl(c)

NextOrderly ==
    \/ Background
    \/ TODO
    \/ \E p \in Ids : WithCancel(p)
    \/ \E p \in Ids : WithDeadline(p)
    \/ \E p \in Ids : WithTimeout(p)
    \/ \E n \in Ids : Cancel(n)
    \/ \E n \in Ids : DeadlinePasses(n)
    \/ \E p \in Ids : ChildBeforeWait(p)
    \/ \E c \in Ids : FinishedOnce(c)
    \/ \E w \in Waiters, n \in Ids : WaitCall(w, n)
    \/ \E w \in Waiters : WaitReturn(w)
    \/ \E w \in Waiters : WaitWake(w)

\* Every registered child does call Finished(), and the scheduler runs a
\* goroutine that can leave Wait().
SpecOrderly ==
    /\ Init /\ [][NextOrderly]_vars
    /\ \A c \in Ids : WF_vars(FinishedOnce(c))
    /\ \A w \in Waiters : WF_vars(WaitReturn(w)) /\ WF_vars(WaitWake(w))

\* part_001 (and part_000).
NextPart001 ==
    \/ Common
    \/ \E p \in Ids : WithCancel_part_001(p)
    \/ \E p \in Ids : WithDeadline_part_001(p)
    \/ \E p \in Ids : WithTimeout_part_001(p)
    \/ \E e \in ExternalErrs : WithStandardContext(e)
    \/ \E p \in Ids : WithContext(p)
    \/ \E p \in Ids : CreateChild(p)

SpecPart001 == InitPart001 /\ [][NextPart001]_vars

\* part_001 without Finished and Wait: the constructors and the standard
\* library's cancellation, which are all that Err() reads.
NextErrPart001 ==
    \/ Background
    \/ TODO
    \/ \E p \in Ids : WithCancel_part_001(p)
    \/ \E p \in Ids : WithDeadline_part_001(p)
    \/ \E p \in Ids : WithTimeout_part_001(p)
    \/ \E e \in ExternalErrs : WithStandardContext(e)
    \/ \E n \in Ids : Cancel(n)
    \/ \E n \in Ids : DeadlinePasses(n)

SpecErrPart001 == InitPart001 /\ [][NextErrPart001]_vars

\* part_002, the earliest revision.
NextPart002 ==
    \/ Common
    \/ \E p \in Ids : WithCancel_part_002(p)
    \/ \E p \in Ids : WithDeadline_part_002(p)
    \/ \E p \in Ids : WithTimeout_part_002(p)
    \/ \E e \in ExternalErrs : WithContext_part_002(e)

SpecPart002 == InitPart002 /\ [][NextPart002]_vars

\* ================================================================ claims
\* A node made by Child (context.go): a ctxImpl without a standard context of
\* its own, registered once with its parent at construction.
MadeByChild(c) == rev = "context.go" /\ typ[c] = "ctxImpl" /\ std[c] = "none"
\* A node made by WithCancel, WithDeadline or WithTimeout.
MadeByWith(c) == typ[c] = "ctxImpl" /\ std[c] \in DerivedStd
\* Goroutine w's call of Wait() stops blocking in this step: it sees a counter
\* of zero, or it is released by the Done that reaches zero.
Unblocks(w) == wpc'[w] \in {"sawzero", "released"} /\ wpc[w] \notin {"sawzero", "released"}
\* A step of n.Finished().
FinishedStep(n) == FinishedEmpty(n) \/ FinishedImpl(n)
\* A call With*(p) of any revision.
WithStep(p) ==
    \/ WithCancel(p) \/ WithDeadline(p) \/ WithTimeout(p)
    \/ WithCancel_part_001(p) \/ WithDeadline_part_001(p) \/ WithTimeout_part_001(p)
    \/ WithCancel_part_002(p) \/ WithDeadline_part_002(p) \/ WithTimeout_part_002(p)

C2_WithRegistersWithParent ==
    [][\A p \in Ids :
         (WithCancel(p) \/ WithDeadline(p) \/ WithTimeout(p))
         => fault' = "none" /\ childrenWg'[p] = childrenWg[p] + 1]_vars

\* C3 (as claimed): a call of Finished() on a node that was registered once
\* (by Child) and has already called Finished() once faults, whatever else is
\* registered with the same parent.
C3_ExcessFinishedFaults ==
    [][\A n \in Ids :
         (FinishedImpl(n) /\ MadeByChild(n) /\ finished[n] >= 1) => fault' # "none"]_vars

\* C3 (amended): a call of Finished() on a node with a parent counter faults
\* exactly when that counter is zero at the call; when it is not, the call,
\* in excess or not, takes one count from it without a fault.
C3_FinishedFaultsAtZero ==
    [][\A n \in Ids :
         (FinishedImpl(n) /\ parentWg[n] # Nil) =>
            IF childrenWg[parentWg[n]] = 0
              THEN fault' = "negative WaitGroup counter" /\ finished' = finished
              ELSE /\ fault' = "none"
                   /\ childrenWg' = [childrenWg EXCEPT ![parentWg[n]] = @ - 1]
                   /\ finished'[n] = finished[n] + 1]_vars

\* An excess call took the count of a sibling: n was registered once, has
\* called Finished() twice, and the program runs on.
C3_Witness ==
    \E n \in Ids :
        /\ MadeByChild(n) /\ finished[n] = 2 /\ fault = "none"
        /\ \E c \in Kids(parentWg[n]) : c # n /\ MadeByChild(c) /\ finished[c] = 0
        /\ childrenWg[parentWg[n]] = 0

\* C4 (as claimed): Finished() on a node made by With* in context.go, which
\* registers nothing, changes no counter and does not fault.
C4_UnregisteredFinishedIsNoOp ==
    [][\A n \in Ids :
         (FinishedImpl(n) /\ rev = "context.go" /\ MadeByWith(n))
         => childrenWg' = childrenWg /\ fault' = "none"]_vars

\* C5: a step that cancels a standard context or lets its deadline pass (the
\* context's Err() goes from nil to an error) changes no counter, counts as no
\* call of Finished(), releases no Wait() and raises no fault; and a blocked
\* Wait() is released only by a step of Finished().
C5_CancelLeavesCounters ==
    [][/\ (\E k \in Ids : cerr[k] = "nil" /\ cerr'[k] \in {"Canceled", "DeadlineExceeded"})
          => childrenWg' = childrenWg /\ finished' = finished /\ wpc' = wpc /\ fault' = fault
       /\ \A w \in Waiters :
            (wpc[w] = "blocked" /\ wpc'[w] # "blocked") => \E n \in Ids : FinishedImpl(n)]_vars

\* A Wait() blocked on a parent whose registered child is cancelled or timed
\* out and has not called Finished().
C5_Witness ==
    \E w \in Waiters : \E c \in Kids(wnode[w]) :
        /\ wpc[w] = "blocked" /\ fault = "none"
        /\ MadeByChild(c) \/ (rev = "part_001" /\ MadeByWith(c))
        /\ cerr[ctx[c]] \in {"Canceled", "DeadlineExceeded"}
        /\ finished[c] = 0 /\ childrenWg[wnode[w]] = 1

\* C6: a call of Finished() on a root (Background() or TODO()) changes no
\* counter, raises no fault and changes no goroutine's place in Wait().
C6_RootFinishedIsNoOp ==
    [][\A n \in Ids :
         (typ[n] = "emptyCtx" /\ (FinishedStep(n) \/ finished'[n] # finished[n]))
         => childrenWg' = childrenWg /\ fault' = "none" /\ wpc' = wpc /\ wnode' = wnode]_vars

\* A root that has called Finished() twice while a Wait() on it is blocked on
\* an outstanding registration.
C6_Witness ==
    \E n \in Ids : \E w \in Waiters :
        /\ typ[n] = "emptyCtx" /\ finished[n] = 2 /\ fault = "none"
        /\ wnode[w] = n /\ wpc[w] = "blocked" /\ childrenWg[n] > 0

\* C7: no counter is negative while the program runs: the Done that takes a
\* counter below zero is the step that panics, and the program ends there.
C7_CounterNeverNegative ==
    \A n \in Ids : childrenWg[n] >= 0 \/ fault = "negative WaitGroup counter"

C7_Witness ==
    /\ fault = "negative WaitGroup counter"
    /\ \E n \in Ids : typ[n] = "ctxImpl" /\ parentWg[n] # Nil /\ finished[n] = 1
                      /\ Kids(parentWg[n]) = {n}

\* C8: the counter of a node b changes, and a Wait() blocked on b is released,
\* only in a step of b's own children: a registration that makes a node
\* reporting to b, or Finished() of a node reporting to b.  Registrations and
\* Finished() calls of the children of any other parent leave b alone.
C8_ParentsDoNotInterfere ==
    [][\A b \in Ids :
         (\/ childrenWg'[b] # childrenWg[b]
          \/ \E w \in Waiters : wnode[w] = b /\ wpc[w] = "blocked" /\ wpc'[w] # "blocked")
         => \/ \E n \in Ids : ~Exists(n) /\ typ'[n] # "none" /\ parentWg'[n] = b
            \/ \E c \in Kids(b) : FinishedImpl(c)]_vars

\* All children of a have finished and a's counter is zero while a Wait() on
\* b is still blocked on b's unfinished child.
C8_Witness ==
    \E a \in Ids : \E b \in Ids \ {a} : \E w \in Waiters :
        /\ fault = "none" /\ childrenWg[a] = 0 /\ childrenWg[b] > 0
        /\ Kids(a) # {} /\ \A c \in Kids(a) : finished[c] = 1
        /\ \E c \in Kids(b) : finished[c] = 0
        /\ wnode[w] = b /\ wpc[w] = "blocked"

\* C9: a call of Wait() on a node whose counter is zero does not block (it
\* goes on to return), a call blocks only on a counter above zero, and a
\* goroutine whose Wait() has returned may call Wait() again.
C9_WaitReturnsAtZero ==
    [][\A w \in Waiters :
         (wpc[w] \in {"idle", "returned"} /\ wpc'[w] # wpc[w])
         => /\ childrenWg[wnode'[w]] = 0 => wpc'[w] = "sawzero"
            /\ childrenWg[wnode'[w]] > 0 => wpc'[w] = "blocked"]_vars

\* A Wait() called on a node whose registrations have all been matched has
\* seen zero and is about to return.
C9_Witness ==
    \E w \in Waiters :
        /\ wpc[w] = "sawzero" /\ fault = "none" /\ childrenWg[wnode[w]] = 0
        /\ Cardinality(Kids(wnode[w])) >= 2
        /\ \A c \in Kids(wnode[w]) : MadeByChild(c) /\ finished[c] = 1

\* C10 (as claimed): Finished() on the node WithContext/CreateChild returned
\* takes one from the counter that call added to.  A node p to which nothing
\* reports has a counter above zero only by such calls, so Finished() on p
\* would take one from p's own counter.
C10_OptInPairsWithFinished ==
    [][\A p \in Ids :
         (rev = "part_001" /\ Kids(p) = {} /\ childrenWg[p] > 0 /\ FinishedStep(p))
         => fault' = "none" /\ childrenWg'[p] = childrenWg[p] - 1]_vars

\* A Wait() on p has seen its counter at zero: the call saw zero itself, or was
\* released at zero, or has returned.
ObservedZero(w, p) == wnode[w] = p /\ wpc[w] \in {"sawzero", "released", "returned"}

\* C11 (as claimed): Child(p) after a Wait() on p has seen zero outstanding
\* registrations is a fatal fault.
C11_LateRegistrationFaults ==
    [][\A p \in Ids :
         ((\E w \in Waiters : ObservedZero(w, p)) /\ Child(p)) => fault' # "none"]_vars

\* C11 (amended): Child(p) after a Wait() on p has seen zero is accepted
\* without a fault: it adds one to p's counter and so starts a new wait
\* episode.  (The only fault in reach is raised later, by a Wait() that was
\* released at zero and wakes up to find the counter raised again.)
C11_LateRegistrationAccepted ==
    [][\A p \in Ids :
         ((\E w \in Waiters : ObservedZero(w, p)) /\ Child(p))
         => /\ fault' = "none"
            /\ childrenWg'[p] = childrenWg[p] + 1
            /\ wpc' = wpc]_vars

\* A Wait() on p has returned and the only node reporting to p is registered
\* and has not finished: it was registered after that Wait() saw zero.
C11_Witness ==
    \E w \in Waiters : \E c \in Ids :
        /\ wpc[w] = "returned" /\ fault = "none"
        /\ Kids(wnode[w]) = {c} /\ MadeByChild(c) /\ finished[c] = 0
        /\ childrenWg[wnode[w]] = 1

\* C12: Err() of a ctxImpl is the wrapped context's Err() mapped onto the
\* package's sentinels: nil while the wrapped context is active, Canceled when
\* it is cancelled, DeadlineExceeded when its deadline has passed, any other
\* error unchanged; the call of a CancelFunc makes it Canceled and the passing
\* of the deadline makes it DeadlineExceeded.
C12_ErrMapsWrappedErr ==
    /\ [](\A n \in Nodes :
            typ[n] = "ctxImpl" =>
              LET e == cerr[ctx[n]] IN
                /\ (e = "nil") => (Err(n) = "nil")
                /\ (e = "Canceled") => (Err(n) = Canceled)
                /\ (e = "DeadlineExceeded") => (Err(n) = DeadlineExceeded)
                /\ (e = "Other") => (Err(n) = "Other"))
    /\ [][\A n \in Ids :
            /\ Cancel(n) => (ErrOf(cerr'[ctx'[n]]) = Canceled)
            /\ DeadlinePasses(n) => (ErrOf(cerr'[ctx'[n]]) = DeadlineExceeded)]_vars

\* One node wraps a context with an error of its own and answers with it,
\* another was cancelled and answers Canceled.
C12_Witness ==
    \E a, b \in Nodes :
        /\ typ[a] = "ctxImpl" /\ std[a] = "external" /\ Err(a) = "Other"
        /\ typ[b] = "ctxImpl" /\ std[b] \in DerivedStd /\ Err(b) = Canceled
        /\ Err(parentWg[b]) = "nil"

\* Node m was derived from node n, directly or through other nodes.
RECURSIVE Descends(_, _, _)
Descends(m, n, d) ==
    /\ d > 0 /\ Exists(m) /\ parentWg[m] # Nil
    /\ \/ parentWg[m] = n
       \/ Descends(parentWg[m], n, d - 1)

C14_WrappedStdFinishedIsNoOp ==
    [][\A n \in Ids :
         (std[n] = "external" /\ parentWg[n] = Nil /\ FinishedImpl(n))
         => (fault' = "none" /\ childrenWg' = childrenWg)]_vars

C16_GrandchildrenDoNotCount ==
    [][/\ \A w \in Waiters :
            (wpc[w] \in {"idle", "returned"} /\ wpc'[w] \in {"sawzero", "blocked"})
            => (wpc'[w] = "sawzero" <=> childrenWg[wnode'[w]] = 0)
       /\ \A c \in Ids :
            (parentWg[c] # Nil /\ childrenWg'[c] # childrenWg[c])
            => /\ childrenWg'[parentWg[c]] = childrenWg[parentWg[c]]
               /\ \A w \in Waiters :
                    (wnode[w] = parentWg[c] /\ wpc[w] = "blocked") => wpc'[w] = "blocked"]_vars

\* A Wait() on r was released by the Finished() of r's only child while a
\* node registered against that child has not finished.
C16_Witness ==
    \E w \in Waiters : \E c, g \in Nodes :
        /\ wpc[w] = "released" /\ fault = "none"
        /\ Kids(wnode[w]) = {c} /\ MadeByChild(c) /\ finished[c] = 1
        /\ childrenWg[wnode[w]] = 0
        /\ parentWg[g] = c /\ MadeByChild(g) /\ finished[g] = 0
        /\ childrenWg[c] = 1

\* C17: nothing stops a registration that races with a Wait(): a Child(p)
\* issued after a Wait() on p has seen zero and before it has returned adds to
\* the counter without a fault and without effect on that Wait(), which can
\* still return and does nothing else, although the child is registered and
\* has not called Finished().
C17_RacingRegistrationIsLost ==
    /\ [](\A w \in Waiters :
            (wpc[w] = "sawzero" /\ fault = "none") => ENABLED WaitReturn(w))
    /\ [][\A w \in Waiters :
            wpc[w] = "sawzero" =>
              /\ wpc'[w] \in {"sawzero", "returned"}
              /\ (childrenWg'[wnode[w]] > childrenWg[wnode[w]]) => fault' = "none"]_vars

\* A Wait() on p has seen zero and is about to return; meanwhile Child(p) has
\* registered a node, which has not finished.
C17_Witness ==
    \E w \in Waiters : \E c \in Ids :
        /\ wpc[w] = "sawzero" /\ fault = "none"
        /\ Kids(wnode[w]) = {c} /\ MadeByChild(c) /\ finished[c] = 0
        /\ childrenWg[wnode[w]] = 1

\* What the nodes 1..i have done to p's counter: a node made by Child(p) has
\* registered once, and every Finished() on a node whose parentWg is p's
\* counter has taken one.
RECURSIVE Balance(_, _)
Balance(p, i) ==
    IF i = 0 THEN 0
    ELSE Balance(p, i - 1)
         + (IF Exists(i) /\ parentWg[i] = p
              THEN (IF MadeByChild(i) THEN 1 ELSE 0) - finished[i]
              ELSE 0)

\* The step is a call Child(p): it made a node that shares p's context and
\* reports to p.
ChildStep(p) ==
    /\ Fresh # Nil /\ typ'[Fresh] = "ctxImpl" /\ std'[Fresh] = "none"
    /\ parentWg'[Fresh] = p

TypeOK ==
    /\ rev \in Revisions
    /\ typ \in [Ids -> {"none", "emptyCtx", "ctxImpl"}]
    /\ parentWg \in [Ids -> {Nil} \cup Ids]
    /\ childrenWg \in [Ids -> -1..(MaxNodes + MaxOptIns)]
    /\ ctx \in [Ids -> {Nil} \cup Ids]
    /\ cerr \in [Ids -> StdErrs \cup {"none"}]
    /\ finished \in [Ids -> 0..MaxFinished]
    /\ optins \in 0..MaxOptIns
    /\ wpc \in [Waiters -> {"idle", "sawzero", "blocked", "released", "returned"}]
    /\ wnode \in [Waiters -> {Nil} \cup Ids]
====
